---- MODULE Spec2Model ----
(***************************************************************************)
(* ZL3073x identity reader over spidev (zl30733_id.c).                     *)
(*                                                                         *)
(* Two specifications share the definitions of the register accessor:     *)
(*   Spec      the program: main() from argument parsing to exit, against *)
(*             a bus whose every transfer may fail, fall short or succeed; *)
(*   UnitSpec  the accessor functions (zl_set_page, spi_read, zl_read_reg, *)
(*             the ZL_READ_REG macro) called with arguments drawn from     *)
(*             bounded sets, each call against a fresh transaction log.    *)
(***************************************************************************)
EXTENDS Integers, Sequences, FiniteSets, TLC

VARIABLES
    pc,        \* position of main(): "args","open","config","read","print","close","return","exit"
    field,     \* index (1..4) of the next ZL_READ_REG invocation of main()
    status,    \* "running", "EXIT_SUCCESS" or "EXIT_FAILURE"
    opens,     \* number of successful open() calls
    closes,    \* number of close() calls
    hostLE,    \* TRUE on a little-endian host (decides memcpy into an integer, ntohs, ntohl)
    dev,       \* index of the register image the device answers reads from
    trace,     \* every SPI_IOC_MESSAGE transfer issued so far, in order
    rdlog,     \* every zl_read_reg call of main(): register, length, result, trace length after it
    vars4,     \* <<chip_id, revision, fw_ver, cfg_ver>> of main()
    out,       \* lines written to standard output
    call       \* UnitSpec: the accessor call just made and everything it did

vars == <<pc, field, status, opens, closes, hostLE, dev, trace, rdlog, vars4, out, call>>

(***************************************************************************)
(* Program constants.                                                      *)
(***************************************************************************)
ZL_PAGE_SIZE == 128
ZL_PAGE_SEL == 127
ZL_REG_ID == 1
ZL_REG_REVISION == 3
ZL_REG_FW_VER == 5
ZL_REG_CUSTOM_CONFIG_VER == 7
EINVAL == 22
ENOMEM == 12
MaxReadLen == 255
ScratchLen == 8

known_ids == << [id |-> 3733,  name |-> "ZL3073x (A)"],
                [id |-> 7829,  name |-> "ZL3073x (B)"],
                [id |-> 11925, name |-> "ZL3073x (C)"] >>

devnode == "/dev/spidev0.0"

(***************************************************************************)
(* Bounds of the model.                                                    *)
(***************************************************************************)
\* logical addresses 0..MaxAddr are swept exhaustively by the zl_read_reg harness
MaxAddr == 2047

\* addresses on and beyond the 11-bit boundary, and the identity registers
EdgeAddrs == {0, 1, 3, 5, 7, 127, 128, 255, 1920, 2047, 2048, 2049, 4095, 4096, 32768, 65535}

\* read lengths the harness passes (size_t): invalid, the macro's widths, the largest, too large
Lens == {0, 1, 2, 3, 4, 8, 9, 255, 256, 300}

\* number of register images the device side is drawn from
NumImages == 4

(***************************************************************************)
(* The device behind the bus primitive ioctl(fd, SPI_IOC_MESSAGE(1), &x).  *)
(* A transfer of n bytes returns a count in IoctlRets(n). A read transfer  *)
(* answers with the echoed address byte followed by the bytes of the       *)
(* register image from that offset on; bytes beyond the returned count are *)
(* never written and keep the zero calloc() gave them.                     *)
(***************************************************************************)
Image(d) ==
    [o \in 0..(ZL_PAGE_SIZE - 1) |->
        CASE d = 1 -> (CASE o = 1 -> 14 [] o = 2 -> 149 [] o = 4 -> 16
                         [] o = 6 -> 2 [] o = 10 -> 1 [] OTHER -> 0)
          [] d = 2 -> 0
          [] d = 3 -> 255
          [] d = 4 -> (CASE o = 1 -> 30 [] o = 2 -> 149 [] o = 3 -> 18 [] o = 4 -> 165
                         [] o = 5 -> 1 [] o = 6 -> 35 [] o = 7 -> 18 [] o = 8 -> 52
                         [] o = 9 -> 86 [] o = 10 -> 120 [] OTHER -> (o * 3) % 256)
          [] OTHER -> (o * (2 * d + 1) + d) % 256]

IoctlRets(n) == {-1, 0, 1, n - 1, n}

BusRx(d, tx, n, ret) ==
    [i \in 1..n |->
        IF i > ret THEN 0
        ELSE IF i = 1 THEN tx[1]
        ELSE Image(d)[(tx[1] + i - 2) % ZL_PAGE_SIZE]]

\* the nondeterminism one zl_read_reg call meets: the count of the page-select
\* write, whether calloc() succeeds, the count of the read transfer
Envs(d, len) == [wret : IoctlRets(2), alloc : BOOLEAN, rret : IoctlRets(len + 1),
                 dev : {d}]

(***************************************************************************)
(* lookup_name                                                             *)
(***************************************************************************)
lookup_name(id) ==
    IF \E i \in 1..Len(known_ids) : known_ids[i].id = id
    THEN known_ids[CHOOSE i \in 1..Len(known_ids) :
                      /\ known_ids[i].id = id
                      /\ \A j \in 1..(i - 1) : known_ids[j].id # id].name
    ELSE "Unknown"

(***************************************************************************)
(* spi_write_u8: one write-only transfer of two bytes.                     *)
(***************************************************************************)
spi_write_u8(reg_off, val, ret) ==
    [rc   |-> IF ret < 1 THEN -1 ELSE 0,
     txns |-> << [kind |-> "W", tx |-> <<reg_off, val>>, len |-> 2,
                  ret |-> ret, rx |-> << >>] >>]

(***************************************************************************)
(* spi_read: length check, scratch allocation, one transfer of len+1       *)
(* bytes, copy of rx[1..len] (C indices) into the caller's buffer.         *)
(***************************************************************************)
memcpy(buf, src, from, len) ==
    [i \in 1..Len(buf) |-> IF i <= len THEN src[from + i - 1] ELSE buf[i]]

\* mutant: the echoed address byte is not skipped
copy_payload_noskip(buf, rx, len) == memcpy(buf, rx, 1, len)

\* memcpy(buf, rx + 1, len)
copy_payload(buf, rx, len) == memcpy(buf, rx, 2, len)

spi_read(reg_off, buf, len, env) ==
    IF len = 0 \/ len > MaxReadLen
    THEN [rc |-> -EINVAL, buf |-> buf, txns |-> << >>]
    ELSE IF ~env.alloc
    THEN [rc |-> -ENOMEM, buf |-> buf, txns |-> << >>]
    ELSE LET tx  == [i \in 1..(len + 1) |-> IF i = 1 THEN reg_off ELSE 0]
             rx  == BusRx(env.dev, tx, len + 1, env.rret)
             txn == [kind |-> "R", tx |-> tx, len |-> len + 1,
                     ret |-> env.rret, rx |-> rx]
         IN  IF env.rret < 1
             THEN [rc |-> -1, buf |-> buf, txns |-> <<txn>>]
             ELSE [rc |-> 0, buf |-> copy_payload(buf, rx, len), txns |-> <<txn>>]

(***************************************************************************)
(* zl_set_page                                                             *)
(***************************************************************************)
\* mutant: the 4-bit range check is missing
zl_set_page_nocheck(page, ret) == spi_write_u8(ZL_PAGE_SEL, page % 16, ret)

zl_set_page(page, ret) ==
    IF page > 15
    THEN [rc |-> -EINVAL, txns |-> << >>]
    ELSE spi_write_u8(ZL_PAGE_SEL, page % 16, ret)

(***************************************************************************)
(* zl_read_reg                                                             *)
(***************************************************************************)
\* mutant: the page is taken from bit 8 up
reg_page_shift8(reg) == (reg \div 256) % 16

reg_page(reg) == (reg \div 128) % 16

reg_off(reg) == reg % 128

\* mutant: the result of zl_set_page is ignored
zl_read_reg_ignore_rc(reg, buf, len, env) ==
    LET s == zl_set_page(reg_page(reg), env.wret)
        r == spi_read(reg_off(reg), buf, len, env)
    IN  [rc |-> r.rc, buf |-> r.buf, txns |-> s.txns \o r.txns]

zl_read_reg(reg, buf, len, env) ==
    LET s == zl_set_page(reg_page(reg), env.wret)
    IN  IF s.rc # 0
        THEN [rc |-> s.rc, buf |-> buf, txns |-> s.txns]
        ELSE LET r == spi_read(reg_off(reg), buf, len, env)
             IN  [rc |-> r.rc, buf |-> r.buf, txns |-> s.txns \o r.txns]

(***************************************************************************)
(* Integers of the program. A uint32_t is kept as its two 16-bit halves    *)
(* [hi, lo] (value hi * 2^16 + lo); a uint16_t has hi = 0.                 *)
(***************************************************************************)
U32(hi, lo) == [hi |-> hi, lo |-> lo]

swap16(x) == (x % 256) * 256 + (x \div 256)

\* memcpy(&_t, _b, 2) into a uint16_t of the host
load16(b, le) == IF le THEN b[2] * 256 + b[1] ELSE b[1] * 256 + b[2]

\* memcpy(&_t, _b, 4) into a uint32_t of the host
load32(b, le) ==
    IF le THEN U32(b[4] * 256 + b[3], b[2] * 256 + b[1])
    ELSE U32(b[1] * 256 + b[2], b[3] * 256 + b[4])

\* mutant: no byte swap on a little-endian host
ntohs_id(x, le) == x

ntohs(x, le) == IF le THEN swap16(x) ELSE x

\* mutant: no byte swap on a little-endian host
ntohl_id(x, le) == x

ntohl(x, le) == IF le THEN U32(swap16(x.lo), swap16(x.hi)) ELSE x

\* (typeof(OUTVAR)) v for an OUTVAR of `width` bits
cast(v, width) == IF width = 16 THEN U32(0, v.lo) ELSE v

(***************************************************************************)
(* The ZL_READ_REG macro of main(): read LEN bytes of REG into the scratch *)
(* buffer _b[8] and decode them into OUTVAR (old value `old`, `width`      *)
(* bits). errx() ends the process: exited = TRUE.                          *)
(***************************************************************************)
decode(b, len, width, le) ==
    IF len = 1 THEN cast(U32(0, b[1]), width)
    ELSE IF len = 2 THEN cast(U32(0, ntohs(load16(b, le), le)), width)
    ELSE cast(ntohl(load32(b, le), le), width)

\* mutant: the failure test has the wrong sign
read_failed_positive(rc) == rc > 0

\* if (zl_read_reg(...) < 0) errx(...)
read_failed(rc) == rc < 0

ZL_READ_REG(reg, old, width, len, fill, le, env) ==
    LET b0 == [i \in 1..ScratchLen |-> fill]
    IN  IF len > ScratchLen
        THEN [exited |-> TRUE, called |-> FALSE, warned |-> FALSE, rc |-> 0,
              val |-> old, txns |-> << >>]
        ELSE LET r == zl_read_reg(reg, b0, len, env)
                 w == len * 8 > width
             IN  IF read_failed(r.rc)
                 THEN [exited |-> TRUE, called |-> TRUE, warned |-> w, rc |-> r.rc,
                       val |-> old, txns |-> r.txns]
                 ELSE IF len \in {1, 2, 4}
                 THEN [exited |-> FALSE, called |-> TRUE, warned |-> w, rc |-> r.rc,
                       val |-> decode(r.buf, len, width, le), txns |-> r.txns]
                 ELSE [exited |-> TRUE, called |-> TRUE, warned |-> w, rc |-> r.rc,
                       val |-> old, txns |-> r.txns]

(***************************************************************************)
(* printf formats of the report.                                           *)
(***************************************************************************)
HexDigit(d) ==
    << "0", "1", "2", "3", "4", "5", "6", "7",
       "8", "9", "A", "B", "C", "D", "E", "F" >>[d + 1]

\* "%04X" of a value below 2^16
Hex4(x) ==
    HexDigit((x \div 4096) % 16) \o HexDigit((x \div 256) % 16)
        \o HexDigit((x \div 16) % 16) \o HexDigit(x % 16)

\* "%08X" of a uint32_t
Hex8(v) == Hex4(v.hi) \o Hex4(v.lo)

\* "%u" of a value below 16
Dec(x) ==
    << "0", "1", "2", "3", "4", "5", "6", "7",
       "8", "9", "10", "11", "12", "13", "14", "15" >>[x + 1]

Report(v) ==
    LET chip_id == v[1].lo
        revision == v[2].lo
        fw_ver == v[3].lo
        cfg_ver == v[4]
    IN  << "ZL3073x identity via " \o devnode,
           "  Chip ID              : 0x" \o Hex4(chip_id) \o "  ("
               \o lookup_name(chip_id) \o ")",
           "  Revision             : 0x" \o Hex4(revision) \o "  (major="
               \o Dec((revision \div 16) % 16) \o " minor=" \o Dec(revision % 16) \o ")",
           "  Firmware Version     : 0x" \o Hex4(fw_ver),
           "  Custom Config Version: 0x" \o Hex8(cfg_ver) >>

(***************************************************************************)
(* main()                                                                  *)
(***************************************************************************)
\* the four ZL_READ_REG invocations, in program order
Fields ==
    << [reg |-> ZL_REG_ID, len |-> 2, width |-> 16],
       [reg |-> ZL_REG_REVISION, len |-> 2, width |-> 16],
       [reg |-> ZL_REG_FW_VER, len |-> 2, width |-> 16],
       [reg |-> ZL_REG_CUSTOM_CONFIG_VER, len |-> 4, width |-> 32] >>

\* what an uninitialised scratch byte may hold
Fills == {0, 170}

NoCall == [op |-> "none"]

Init ==
    /\ pc = "args"
    /\ field = 1
    /\ status = "running"
    /\ opens = 0
    /\ closes = 0
    /\ hostLE \in BOOLEAN
    /\ dev \in 1..NumImages
    /\ trace = << >>
    /\ rdlog = << >>
    /\ vars4 = << U32(0, 0), U32(0, 0), U32(0, 0), U32(0, 0) >>
    /\ out = << >>
    /\ call = NoCall

\* err(), errx() and the early return of main(): the process ends with EXIT_FAILURE
Die ==
    /\ pc' = "exit"
    /\ status' = "EXIT_FAILURE"

\* getopt_long loop: usage / invalid mode end the program, otherwise go on
ParseArgs ==
    /\ pc = "args"
    /\ \/ pc' = "open" /\ status' = status
       \/ Die
    /\ UNCHANGED <<field, opens, closes, hostLE, dev, trace, rdlog, vars4, out, call>>

\* fd = open(devnode, O_RDWR); if (fd < 0) err(...)
Open ==
    /\ pc = "open"
    /\ \/ pc' = "config" /\ status' = status /\ opens' = opens + 1
       \/ Die /\ opens' = opens
    /\ UNCHANGED <<field, closes, hostLE, dev, trace, rdlog, vars4, out, call>>

\* the three bus-setting ioctls; the first that returns -1 ends the program
SetBusSettings ==
    /\ pc = "config"
    /\ \E ok \in 0..3 :
          IF ok = 3 THEN pc' = "read" /\ status' = status ELSE Die
    /\ UNCHANGED <<field, opens, closes, hostLE, dev, trace, rdlog, vars4, out, call>>

\* ZL_READ_REG(fd, <k-th register>, <k-th variable>, <k-th length>)
ReadField(k) ==
    /\ pc = "read"
    /\ field = k
    /\ \E env \in Envs(dev, Fields[k].len), fill \in Fills :
          LET f == Fields[k]
              m == ZL_READ_REG(f.reg, vars4[k], f.width, f.len, fill, hostLE, env)
          IN  /\ trace' = trace \o m.txns
              /\ rdlog' = IF m.called
                          THEN Append(rdlog, [reg |-> f.reg, len |-> f.len, rc |-> m.rc,
                                              ntx |-> Len(trace) + Len(m.txns)])
                          ELSE rdlog
              /\ vars4' = [vars4 EXCEPT ![k] = m.val]
              /\ IF m.exited
                 THEN Die /\ field' = field
                 ELSE /\ status' = status
                      /\ IF k = Len(Fields)
                         THEN pc' = "print" /\ field' = field
                         ELSE pc' = pc /\ field' = k + 1
    /\ UNCHANGED <<opens, closes, hostLE, dev, out, call>>

\* the five printf calls
PrintReport ==
    /\ pc = "print"
    /\ out' = out \o Report(vars4)
    /\ pc' = "close"
    /\ UNCHANGED <<field, status, opens, closes, hostLE, dev, trace, rdlog, vars4, call>>

\* close(fd)
CloseFd ==
    /\ pc = "close"
    /\ closes' = closes + 1
    /\ pc' = "return"
    /\ UNCHANGED <<field, status, opens, hostLE, dev, trace, rdlog, vars4, out, call>>

\* return EXIT_SUCCESS
Return ==
    /\ pc = "return"
    /\ pc' = "exit"
    /\ status' = "EXIT_SUCCESS"
    /\ UNCHANGED <<field, opens, closes, hostLE, dev, trace, rdlog, vars4, out, call>>

Next ==
    \/ ParseArgs
    \/ Open
    \/ SetBusSettings
    \/ \E k \in 1..Len(Fields) : ReadField(k)
    \/ PrintReport
    \/ CloseFd
    \/ Return

Spec == Init /\ [][Next]_vars

(***************************************************************************)
(* The accessor functions called on their own: one call per behaviour,     *)
(* against an empty transaction log and a caller's buffer filled with 170. *)
(***************************************************************************)
Poison(n) == [i \in 1..n |-> 170]

\* uint8_t offsets handed to spi_read
Offs == {0, 1, 7, 127, 128, 255}

\* (register, length, image) handed to zl_read_reg
ReadRegInputs ==
    ((0..MaxAddr) \X {2} \X {1}) \cup (EdgeAddrs \X Lens \X (1..NumImages))

UnitInit ==
    /\ pc = "unit"
    /\ field = 0
    /\ status = "running"
    /\ opens = 1
    /\ closes = 0
    /\ hostLE = FALSE
    /\ dev = 1
    /\ trace = << >>
    /\ rdlog = << >>
    /\ vars4 = << U32(0, 0), U32(0, 0), U32(0, 0), U32(0, 0) >>
    /\ out = << >>
    /\ call = NoCall

UnitFrame == UNCHANGED <<pc, field, status, opens, closes, trace, rdlog, vars4, out>>

CallSetPage ==
    /\ pc = "unit"
    /\ call = NoCall
    /\ \E page \in 0..255, ret \in IoctlRets(2) :
          LET r == zl_set_page(page, ret)
          IN  call' = [op |-> "zl_set_page", arg |-> page, len |-> 0, width |-> 0,
                       rc |-> r.rc, txns |-> r.txns, buf0 |-> << >>, buf |-> << >>,
                       val |-> U32(0, 0), exited |-> FALSE]
    /\ UNCHANGED <<hostLE, dev>>
    /\ UnitFrame

CallSpiRead ==
    /\ pc = "unit"
    /\ call = NoCall
    /\ \E off \in Offs, len \in Lens, d \in 1..NumImages :
       \E env \in Envs(d, len) :
          LET b0 == Poison(len)
              r == spi_read(off, b0, len, env)
          IN  /\ call' = [op |-> "spi_read", arg |-> off, len |-> len, width |-> 0,
                          rc |-> r.rc, txns |-> r.txns, buf0 |-> b0, buf |-> r.buf,
                          val |-> U32(0, 0), exited |-> FALSE]
              /\ dev' = d
    /\ UNCHANGED hostLE
    /\ UnitFrame

CallReadReg ==
    /\ pc = "unit"
    /\ call = NoCall
    /\ \E in \in ReadRegInputs :
       \E env \in Envs(in[3], in[2]) :
          LET b0 == Poison(in[2])
              r == zl_read_reg(in[1], b0, in[2], env)
          IN  /\ call' = [op |-> "zl_read_reg", arg |-> in[1], len |-> in[2], width |-> 0,
                          rc |-> r.rc, txns |-> r.txns, buf0 |-> b0, buf |-> r.buf,
                          val |-> U32(0, 0), exited |-> FALSE]
              /\ dev' = in[3]
    /\ UNCHANGED hostLE
    /\ UnitFrame

CallMacro ==
    /\ pc = "unit"
    /\ call = NoCall
    /\ \E reg \in {ZL_REG_ID, ZL_REG_CUSTOM_CONFIG_VER, 2047}, len \in Lens,
          width \in {16, 32}, d \in 1..NumImages, le \in BOOLEAN :
       \E env \in Envs(d, len), fill \in Fills :
          LET m == ZL_READ_REG(reg, U32(0, 0), width, len, fill, le, env)
          IN  /\ call' = [op |-> "ZL_READ_REG", arg |-> reg, len |-> len, width |-> width,
                          rc |-> m.rc, txns |-> m.txns, buf0 |-> << >>, buf |-> << >>,
                          val |-> m.val, exited |-> m.exited]
              /\ dev' = d
              /\ hostLE' = le
    /\ UnitFrame

UnitNext ==
    \/ CallSetPage
    \/ CallSpiRead
    \/ CallReadReg
    \/ CallMacro

UnitSpec == UnitInit /\ [][UnitNext]_vars

(***************************************************************************)
(* Properties.                                                             *)
(***************************************************************************)
\* the bytes a read transfer received after the echoed address byte
Payload(t) == SubSeq(t.rx, 2, t.len)

IsCall(op) == call # NoCall /\ call.op = op

\* C1: zl_read_reg with a length of 0 or above 255 returns -EINVAL and has issued
\* no bus transfer at all (neither the page-select write nor a read).
C1_BadLengthTouchesNoBus ==
    (IsCall("zl_read_reg") /\ (call.len = 0 \/ call.len > 255))
        => (call.rc = -EINVAL /\ call.txns = << >>)

\* C2: whenever a transfer issued by zl_read_reg (the 2-byte page-select write or
\* the read of length+1 bytes) reports fewer bytes than were requested, zl_read_reg
\* returns the bus error -1, never success.
C2_ShortTransferIsBusError ==
    (IsCall("zl_read_reg") /\ call.len \in 1..255)
        => \A i \in 1..Len(call.txns) :
              call.txns[i].ret < call.txns[i].len => call.rc = -1

\* C3: once a register read of main() has failed (zl_read_reg returned a negative
\* value), the program has ended with a non-zero status, standard output is empty,
\* that read was the last one, and no transfer was issued after those of the
\* failing call.
C3_ReadFailureAborts ==
    \A i \in 1..Len(rdlog) :
        rdlog[i].rc < 0 =>
            /\ pc = "exit"
            /\ status = "EXIT_FAILURE"
            /\ out = << >>
            /\ i = Len(rdlog)
            /\ Len(trace) = rdlog[i].ntx

\* C3 witness: the third read failed after two that succeeded
C3_Witness ==
    /\ Len(rdlog) = 3
    /\ rdlog[3].rc < 0
    /\ rdlog[1].rc = 0
    /\ pc = "exit"

\* C4: zl_set_page(p) with p > 15 returns -EINVAL and issues no transfer; with p
\* in 0..15 it issues exactly one write transfer whose bytes are (0x7F, p).
C4_SetPage ==
    IsCall("zl_set_page") =>
        IF call.arg > 15
        THEN call.rc = -EINVAL /\ call.txns = << >>
        ELSE /\ Len(call.txns) = 1
             /\ call.txns[1].kind = "W"
             /\ call.txns[1].tx = <<127, call.arg>>

\* C4 witness: page 16, the first rejected value
C4_Witness == IsCall("zl_set_page") /\ call.arg = 16 /\ call.rc = -EINVAL

\* C5: for a logical address in 0..0x7FF the page zl_read_reg writes to the page
\* select register is addr >> 7, the offset it sends in the read is addr & 0x7F,
\* page * 128 + offset gives the address back, page is in 0..15 and offset in 0..127.
C5_AddressSplit ==
    (IsCall("zl_read_reg") /\ call.arg <= 2047) =>
        /\ Len(call.txns) >= 1 =>
              /\ call.txns[1].tx[2] = call.arg \div 128
              /\ call.txns[1].tx[2] \in 0..15
        /\ Len(call.txns) = 2 =>
              /\ call.txns[2].tx[1] = call.arg % 128
              /\ call.txns[2].tx[1] \in 0..127
              /\ call.txns[1].tx[2] * 128 + call.txns[2].tx[1] = call.arg

\* C5 witness: the last address of the last page, with both transfers issued
C5_Witness == IsCall("zl_read_reg") /\ call.arg = 2047 /\ Len(call.txns) = 2

\* C6: the value ZL_READ_REG stores is the unsigned big-endian reading of the bytes
\* the read returned, on hosts of either byte order: hi * 256 + lo for two bytes,
\* b0 * 2^24 + b1 * 2^16 + b2 * 2^8 + b3 for four (held as its 16-bit halves), the
\* byte itself for one; for a destination at least as wide as the field.
C6_BigEndianDecode ==
    (IsCall("ZL_READ_REG") /\ ~call.exited /\ call.len * 8 <= call.width) =>
        LET b == Payload(call.txns[2])
        IN  /\ call.len = 1 => call.val = U32(0, b[1])
            /\ call.len = 2 => call.val = U32(0, b[1] * 256 + b[2])
            /\ call.len = 4 => call.val = U32(b[1] * 256 + b[2], b[3] * 256 + b[4])

\* C6 witness: four distinct bytes 12 34 56 78 decoded on a little-endian host
C6_Witness ==
    /\ IsCall("ZL_READ_REG")
    /\ ~call.exited
    /\ hostLE
    /\ call.len = 4
    /\ call.width = 32
    /\ Payload(call.txns[2]) = <<18, 52, 86, 120>>
    /\ call.val = U32(4660, 22136)

\* the name the report gives a chip ID: the table entry equal to it, else "Unknown"
NameOf(id) ==
    IF id = 3733 THEN "ZL3073x (A)"
    ELSE IF id = 7829 THEN "ZL3073x (B)"
    ELSE IF id = 11925 THEN "ZL3073x (C)"
    ELSE "Unknown"

\* the report the payload bytes p[1..4] of the four reads call for
ReportOf(p) ==
    LET id  == p[1][1] * 256 + p[1][2]
        rev == p[2][1] * 256 + p[2][2]
        fw  == p[3][1] * 256 + p[3][2]
    IN  << "ZL3073x identity via /dev/spidev0.0",
           "  Chip ID              : 0x" \o Hex4(id) \o "  (" \o NameOf(id) \o ")",
           "  Revision             : 0x" \o Hex4(rev) \o "  (major="
               \o Dec((p[2][2] \div 16) % 16) \o " minor=" \o Dec(p[2][2] % 16) \o ")",
           "  Firmware Version     : 0x" \o Hex4(fw),
           "  Custom Config Version: 0x" \o Hex4(p[4][1] * 256 + p[4][2])
               \o Hex4(p[4][3] * 256 + p[4][4]) >>

\* the payloads of the four reads of a run that got through all of them
Payloads == [k \in 1..4 |-> Payload(trace[2 * k])]

\* C7: whatever is printed is the report of the payload bytes returned by the reads
\* at page 0, offsets 1, 3, 5 and 7: chip ID (big-endian u16) with its exact-match
\* table name or "Unknown", revision with major = bits 7..4 and minor = bits 3..0,
\* firmware version, custom config version (big-endian u32). The payloads 0E 95,
\* 00 10, 00 02, 00 00 00 01 print 0x0E95 (ZL3073x (A)), 0x0010 (major=1 minor=0),
\* 0x0002, 0x00000001; all-zero payloads print 0x0000 (Unknown) and zeros.
C7_ReportFromPayload ==
    out # << >> =>
        /\ Len(trace) = 8
        /\ \A k \in 1..4 :
              /\ trace[2 * k - 1].tx = <<127, 0>>
              /\ trace[2 * k].tx[1] = 2 * k - 1
        /\ out = ReportOf(Payloads)
        /\ Payloads = << <<14, 149>>, <<0, 16>>, <<0, 2>>, <<0, 0, 0, 1>> >> =>
              out = << "ZL3073x identity via /dev/spidev0.0",
                       "  Chip ID              : 0x0E95  (ZL3073x (A))",
                       "  Revision             : 0x0010  (major=1 minor=0)",
                       "  Firmware Version     : 0x0002",
                       "  Custom Config Version: 0x00000001" >>
        /\ Payloads = << <<0, 0>>, <<0, 0>>, <<0, 0>>, <<0, 0, 0, 0>> >> =>
              out = << "ZL3073x identity via /dev/spidev0.0",
                       "  Chip ID              : 0x0000  (Unknown)",
                       "  Revision             : 0x0000  (major=0 minor=0)",
                       "  Firmware Version     : 0x0000",
                       "  Custom Config Version: 0x00000000" >>

\* C7 witness: the report of the example payloads, printed on a little-endian host
C7_Witness ==
    /\ out # << >>
    /\ hostLE
    /\ \A i \in 1..Len(trace) : trace[i].ret = trace[i].len
    /\ Payloads = << <<14, 149>>, <<0, 16>>, <<0, 2>>, <<0, 0, 0, 1>> >>

C9_ClosedOnEveryPath ==
    /\ opens <= 1
    /\ closes <= opens
    /\ opens = 0 => trace = << >>
    /\ (pc = "exit" /\ opens = 1) => closes = 1

\* the shape of the one transfer of a read: len + 1 bytes, the offset then zeros
C10_Shape ==
    /\ call.txns[1].kind = "R"
    /\ call.txns[1].len = call.len + 1
    /\ Len(call.txns[1].tx) = call.len + 1
    /\ call.txns[1].tx[1] = call.arg
    /\ \A i \in 2..(call.len + 1) : call.txns[1].tx[i] = 0

C10_Frame ==
    /\ call.rc = 0 => call.buf = SubSeq(call.txns[1].rx, 2, call.len + 1)
    /\ call.rc # 0 => call.buf = call.buf0

\* C10 as stated: every spi_read with a length in 1..255 issues one transfer of
\* length + 1 bytes (offset, then zeros); on success the caller gets received bytes
\* 1..length, on any failure the caller's buffer is unmodified.
C10_AlwaysOneTransfer ==
    (IsCall("spi_read") /\ call.len \in 1..255) =>
        /\ Len(call.txns) = 1
        /\ C10_Shape
        /\ C10_Frame

\* C10 amended: as above, except that a read whose scratch allocation fails
\* (-ENOMEM) issues no transfer at all.
C10_OneTransferUnlessNoMemory ==
    (IsCall("spi_read") /\ call.len \in 1..255) =>
        /\ call.rc = -ENOMEM => call.txns = << >>
        /\ call.rc # -ENOMEM => (Len(call.txns) = 1 /\ C10_Shape)
        /\ C10_Frame

\* C10 witness: a successful read of the largest length overwrote the whole buffer
C10_Witness ==
    /\ IsCall("spi_read")
    /\ call.len = 255
    /\ call.rc = 0
    /\ call.txns[1].ret = 256
    /\ call.buf # call.buf0

====
